---- MODULE Spec2Model ----
(***************************************************************************)
(* DigiMark static/js/main.js: the document-ready listener that installs   *)
(* the file-input validators and the banner auto-close timers, and the     *)
(* validateFileInput helper.  Strings are sequences of one-character       *)
(* strings so that split, pop and toLowerCase are computed, not assumed.   *)
(***************************************************************************)
EXTENDS Integers, Sequences, FiniteSets, TLC

\* ------------------------------------------------------------------ bounds
MaxSegs == 3
MaxBanners == 2
MaxTime == 7500

\* --------------------------------------------------------------- constants
AutoCloseDelay == 5000
maxSize == 16 * 1024 * 1024

Controls == {"answer_sheet", "answer_key"}
BannerIds == 1..MaxBanners

VARIABLES
    present,     \* present[c]: the page contains an element with id c
    handlers,    \* handlers[c]: allowed-extension arrays of the change listeners on c
    files,       \* files[c]: the control's FileList, <<>> or <<file>>
    selected,    \* selected[c]: the FileList the user's last pick put in c
    pending,     \* pending[c]: a change event on c is queued
    validated,   \* validated[c]: validateFileInput has returned for the last pick on c
    alerted,     \* alerted[c]: the alert() dialogs of the last change event on c
    uncaught,    \* an exception escaped a handler
    ready,       \* DOMContentLoaded has been delivered
    loadedAt,    \* the clock when DOMContentLoaded was delivered
    now,         \* the clock, in milliseconds
    banner,      \* banner[b]: "none" (not in the page), "shown", "dismissed"
    hasClose,    \* hasClose[b]: the banner contains a .btn-close element
    dismissedBy, \* dismissedBy[b]: "none", "user" or "timer", whoever dismissed first
    alerts,      \* the banners returned by querySelectorAll('.alert')
    timers,      \* the pending timeouts, in registration order
    fired,       \* fired[b]: number of timeout callbacks run for b
    clicks       \* clicks[b]: number of closeButton.click() calls for b

vars == <<present, handlers, files, selected, pending, validated, alerted,
          uncaught, ready, loadedAt, now, banner, hasClose, dismissedBy,
          alerts, timers, fired, clicks>>

inputVars == <<files, selected, pending, validated, alerted>>
bannerVars == <<banner, hasClose, dismissedBy, fired, clicks>>

\* ------------------------------------------------------------ string model
UpperCase == <<"A","B","C","D","E","F","G","H","I","J","K","L","M",
               "N","O","P","Q","R","S","T","U","V","W","X","Y","Z">>
LowerCase == <<"a","b","c","d","e","f","g","h","i","j","k","l","m",
               "n","o","p","q","r","s","t","u","v","w","x","y","z">>

\* String.prototype.toLowerCase, one character
lowerChar(ch) ==
    IF \E i \in 1..26 : UpperCase[i] = ch
    THEN LowerCase[CHOOSE i \in 1..26 : UpperCase[i] = ch]
    ELSE ch

\* String.prototype.toLowerCase
toLowerCase(s) == [i \in 1..Len(s) |-> lowerChar(s[i])]

\* String.prototype.split with a one-character separator: the array of the
\* pieces between separators, empty pieces included
RECURSIVE splitFrom(_, _, _, _)
splitFrom(s, sep, i, cur) ==
    IF i > Len(s) THEN <<cur>>
    ELSE IF s[i] = sep THEN <<cur>> \o splitFrom(s, sep, i + 1, <<>>)
    ELSE splitFrom(s, sep, i + 1, Append(cur, s[i]))

split(s, sep) == splitFrom(s, sep, 1, <<>>)

\* Array.prototype.pop: the last element
pop(arr) == arr[Len(arr)]

\* Array.prototype.includes
includes(arr, x) == \E i \in 1..Len(arr) : arr[i] = x

\* fileName.split('.').pop() without the lowercasing
fileExtension_CaseSensitive(fileName) == pop(split(fileName, "."))

\* const fileExtension = fileName.split('.').pop().toLowerCase();
fileExtension(fileName) == toLowerCase(pop(split(fileName, ".")))

\* ------------------------------------------------------- allowed extensions
jpg == <<"j","p","g">>
jpeg == <<"j","p","e","g">>
png == <<"p","n","g">>
pdf == <<"p","d","f">>
txt == <<"t","x","t">>

\* the array each control's listener passes to validateFileInput
allowedExtensions(c) ==
    IF c = "answer_sheet" THEN <<jpg, jpeg, png, pdf>>
    ELSE <<jpg, jpeg, png, pdf, txt>>

\* ------------------------------------------------------------------ alerts
TypeAlert(allowed) == [msg |-> "Invalid file type. Allowed types: ", list |-> allowed]
SizeAlert == [msg |-> "File size exceeds the maximum limit of 16MB.", list |-> <<>>]

\* ------------------------------------------------------- validateFileInput
\* the running result of one call: the control's FileList, the dialogs
\* raised so far, and whether the call threw
Returned(fileList) == [files |-> fileList, alerts |-> <<>>, threw |-> FALSE]

\* if (!allowedExtensions.includes(fileExtension)) { alert(...); input.value = ''; }
typeCheck(r, file, allowed) ==
    IF ~includes(allowed, fileExtension(file.name))
    THEN [r EXCEPT !.alerts = Append(@, TypeAlert(allowed)), !.files = <<>>]
    ELSE r

\* if (file.size > maxSize) { alert(...); input.value = ''; }
sizeCheck(r, file) ==
    IF file.size > maxSize
    THEN [r EXCEPT !.alerts = Append(@, SizeAlert), !.files = <<>>]
    ELSE r

\* the size branch alerts but forgets input.value = ''
validateFileInput_NoSizeReset(fileList, allowed) ==
    IF fileList = <<>> THEN Returned(fileList)
    ELSE LET file == fileList[1]
             r == typeCheck(Returned(fileList), file, allowed)
         IN IF file.size > maxSize
            THEN [r EXCEPT !.alerts = Append(@, SizeAlert)]
            ELSE r

\* the size test written >= instead of >
validateFileInput_SizeGe(fileList, allowed) ==
    IF fileList = <<>> THEN Returned(fileList)
    ELSE LET file == fileList[1]
             r == typeCheck(Returned(fileList), file, allowed)
         IN IF file.size >= maxSize
            THEN [r EXCEPT !.alerts = Append(@, SizeAlert), !.files = <<>>]
            ELSE r

\* the type branch alerts but forgets input.value = ''
validateFileInput_NoTypeReset(fileList, allowed) ==
    IF fileList = <<>> THEN Returned(fileList)
    ELSE LET file == fileList[1]
             r == Returned(fileList)
             t == IF ~includes(allowed, fileExtension(file.name))
                  THEN [r EXCEPT !.alerts = Append(@, TypeAlert(allowed))]
                  ELSE r
         IN sizeCheck(t, file)

\* the size test chained with else-if, so it is skipped after a type violation
validateFileInput_ElseIf(fileList, allowed) ==
    IF fileList = <<>> THEN Returned(fileList)
    ELSE LET file == fileList[1]
         IN IF ~includes(allowed, fileExtension(file.name))
            THEN typeCheck(Returned(fileList), file, allowed)
            ELSE sizeCheck(Returned(fileList), file)

\* the two tests in the opposite order
validateFileInput_SizeFirst(fileList, allowed) ==
    IF fileList = <<>> THEN Returned(fileList)
    ELSE LET file == fileList[1]
         IN typeCheck(sizeCheck(Returned(fileList), file), file, allowed)

\* without "if (!file) return": file.name of undefined throws a TypeError
validateFileInput_NoFileGuard(fileList, allowed) ==
    IF fileList = <<>> THEN [Returned(fileList) EXCEPT !.threw = TRUE]
    ELSE LET file == fileList[1]
         IN sizeCheck(typeCheck(Returned(fileList), file, allowed), file)

\* function validateFileInput(input, allowedExtensions): fileList is
\* input.files on entry; the result carries input.files on return
validateFileInput(fileList, allowed) ==
    IF fileList = <<>> THEN Returned(fileList)
    ELSE LET file == fileList[1]
         IN sizeCheck(typeCheck(Returned(fileList), file, allowed), file)

\* the change listeners of one control, run in registration order; a throwing
\* listener is reported and the next one still runs
RECURSIVE runListeners(_, _, _)
runListeners(hs, i, r) ==
    IF i > Len(hs) THEN r
    ELSE LET v == validateFileInput(r.files, hs[i])
         IN runListeners(hs, i + 1,
                [files |-> v.files, alerts |-> r.alerts \o v.alerts,
                 threw |-> r.threw \/ v.threw])

\* ---------------------------------------------------------------- the page
RECURSIVE documentOrder(_)
documentOrder(S) ==
    IF S = {} THEN <<>>
    ELSE LET m == CHOOSE x \in S : \A y \in S : x <= y
         IN <<m>> \o documentOrder(S \ {m})

\* document.querySelectorAll('.alert')
querySelectorAll == {b \in BannerIds : banner[b] = "shown"}

Init ==
    /\ present \in [Controls -> BOOLEAN]
    /\ handlers = [c \in Controls |-> <<>>]
    /\ files = [c \in Controls |-> <<>>]
    /\ selected = [c \in Controls |-> <<>>]
    /\ pending = [c \in Controls |-> FALSE]
    /\ validated = [c \in Controls |-> FALSE]
    /\ alerted = [c \in Controls |-> <<>>]
    /\ uncaught = FALSE
    /\ ready = FALSE
    /\ loadedAt = 0
    /\ now = 0
    /\ banner \in [BannerIds -> {"none", "shown"}]
    /\ hasClose \in [BannerIds -> BOOLEAN]
    /\ \A b \in BannerIds : banner[b] = "none" => ~hasClose[b]
    /\ dismissedBy = [b \in BannerIds |-> "none"]
    /\ alerts = {}
    /\ timers = <<>>
    /\ fired = [b \in BannerIds |-> 0]
    /\ clicks = [b \in BannerIds |-> 0]

\* setTimeout(..., 5000) for every element of the NodeList, in order
scheduled(nodes) ==
    [i \in 1..Len(nodes) |-> [alert |-> nodes[i], due |-> now + AutoCloseDelay]]

\* the listener without the "if (answerSheetInput)" / "if (answerKeyInput)"
\* guards: addEventListener on null throws and the rest of the listener is lost
DOMContentLoaded_NoGuard ==
    /\ ~ready
    /\ ready' = TRUE
    /\ loadedAt' = now
    /\ IF ~present["answer_sheet"]
       THEN /\ uncaught' = TRUE
            /\ UNCHANGED <<handlers, alerts, timers>>
       ELSE IF ~present["answer_key"]
       THEN /\ uncaught' = TRUE
            /\ handlers' = [handlers EXCEPT !["answer_sheet"] =
                                Append(@, allowedExtensions("answer_sheet"))]
            /\ UNCHANGED <<alerts, timers>>
       ELSE /\ handlers' = [c \in Controls |->
                                Append(handlers[c], allowedExtensions(c))]
            /\ alerts' = querySelectorAll
            /\ timers' = timers \o scheduled(documentOrder(querySelectorAll))
            /\ UNCHANGED uncaught
    /\ UNCHANGED <<present, now, inputVars, bannerVars>>

\* document.addEventListener('DOMContentLoaded', function() { ... })
DOMContentLoaded ==
    /\ ~ready
    /\ ready' = TRUE
    /\ loadedAt' = now
    /\ handlers' = [c \in Controls |->
                       IF present[c]
                       THEN Append(handlers[c], allowedExtensions(c))
                       ELSE handlers[c]]
    /\ alerts' = querySelectorAll
    /\ timers' = timers \o scheduled(documentOrder(querySelectorAll))
    /\ UNCHANGED <<present, uncaught, now, inputVars, bannerVars>>

\* the user picks a file in the control's file picker, or clears the
\* selection; the browser queues a change event when the selection changes
Select(c, fileList) ==
    /\ present[c]
    /\ ~pending[c]
    /\ fileList # files[c]
    /\ files' = [files EXCEPT ![c] = fileList]
    /\ selected' = [selected EXCEPT ![c] = fileList]
    /\ pending' = [pending EXCEPT ![c] = TRUE]
    /\ validated' = [validated EXCEPT ![c] = FALSE]
    /\ alerted' = [alerted EXCEPT ![c] = <<>>]
    /\ UNCHANGED <<present, handlers, uncaught, ready, loadedAt, now,
                   alerts, timers, bannerVars>>

\* the change event is dispatched: every listener on the control runs
\* validateFileInput(this, [...]) to completion
ChangeEvent(c) ==
    /\ pending[c]
    /\ LET r == runListeners(handlers[c], 1, Returned(files[c]))
       IN /\ files' = [files EXCEPT ![c] = r.files]
          /\ alerted' = [alerted EXCEPT ![c] = r.alerts]
          /\ uncaught' = (uncaught \/ r.threw)
    /\ pending' = [pending EXCEPT ![c] = FALSE]
    /\ validated' = [validated EXCEPT ![c] = (Len(handlers[c]) > 0)]
    /\ UNCHANGED <<present, handlers, selected, ready, loadedAt, now,
                   alerts, timers, bannerVars>>

\* time passes
Tick(d) ==
    /\ now + d <= MaxTime
    /\ now' = now + d
    /\ UNCHANGED <<present, handlers, uncaught, ready, loadedAt, alerts,
                   timers, inputVars, bannerVars>>

\* the effect of activating a banner's .btn-close: the banner is dismissed,
\* and activating it again on the dismissed banner changes nothing
activateClose(b, who) ==
    /\ banner' = [banner EXCEPT ![b] = "dismissed"]
    /\ dismissedBy' = [dismissedBy EXCEPT ![b] = IF @ = "none" THEN who ELSE @]

\* the callback without the "if (closeButton)" test: null.click() throws
TimerFire_NoNullCheck ==
    /\ Len(timers) > 0
    /\ timers[1].due <= now
    /\ LET alert == timers[1].alert
       IN /\ fired' = [fired EXCEPT ![alert] = @ + 1]
          /\ IF hasClose[alert]
             THEN /\ clicks' = [clicks EXCEPT ![alert] = @ + 1]
                  /\ activateClose(alert, "timer")
                  /\ UNCHANGED uncaught
             ELSE /\ uncaught' = TRUE
                  /\ UNCHANGED <<clicks, banner, dismissedBy>>
    /\ timers' = Tail(timers)
    /\ UNCHANGED <<present, handlers, ready, loadedAt, now, alerts,
                   hasClose, inputVars>>

\* the callback with the test inverted: "if (!closeButton)"
TimerFire_Inverted ==
    /\ Len(timers) > 0
    /\ timers[1].due <= now
    /\ LET alert == timers[1].alert
       IN /\ fired' = [fired EXCEPT ![alert] = @ + 1]
          /\ IF ~hasClose[alert]
             THEN uncaught' = TRUE
             ELSE UNCHANGED uncaught
    /\ timers' = Tail(timers)
    /\ UNCHANGED <<present, handlers, ready, loadedAt, now, alerts,
                   clicks, banner, dismissedBy, hasClose, inputVars>>

\* the timeout callback of the oldest due timer:
\* const closeButton = alert.querySelector('.btn-close');
\* if (closeButton) { closeButton.click(); }
TimerFire ==
    /\ Len(timers) > 0
    /\ timers[1].due <= now
    /\ LET alert == timers[1].alert
       IN /\ fired' = [fired EXCEPT ![alert] = @ + 1]
          /\ IF hasClose[alert]
             THEN /\ clicks' = [clicks EXCEPT ![alert] = @ + 1]
                  /\ activateClose(alert, "timer")
             ELSE UNCHANGED <<clicks, banner, dismissedBy>>
    /\ timers' = Tail(timers)
    /\ UNCHANGED <<present, handlers, uncaught, ready, loadedAt, now, alerts,
                   hasClose, inputVars>>

\* the user activates the dismiss affordance of a banner on the page
UserDismiss(b) ==
    /\ banner[b] = "shown"
    /\ hasClose[b]
    /\ activateClose(b, "user")
    /\ UNCHANGED <<present, handlers, uncaught, ready, loadedAt, now, alerts,
                   timers, hasClose, fired, clicks, inputVars>>

\* a banner is added to the page after initialization
AddBanner(b, close) ==
    /\ ready
    /\ banner[b] = "none"
    /\ banner' = [banner EXCEPT ![b] = "shown"]
    /\ hasClose' = [hasClose EXCEPT ![b] = close]
    /\ UNCHANGED <<present, handlers, uncaught, ready, loadedAt, now, alerts,
                   timers, dismissedBy, fired, clicks, inputVars>>

\* ------------------------------------------------------------------ inputs
Delays == {1000, 2500}

Sizes == {2 * 1024 * 1024, maxSize, maxSize + 1, 20 * 1024 * 1024}

ScenarioNames ==
    { <<"s","c","a","n",".","p","n","g">>,
      <<"S","C","A","N",".","P","N","G">>,
      <<"s","c","a","n",".","d","o","c","x">>,
      <<"k","e","y",".","t","x","t">>,
      <<"a",".","p","d","f",".","e","x","e">>,
      <<"p","d","f">> }

\* the FileLists the user can produce on the upload page: one file, or none
ScenarioFileLists ==
    {<<>>} \cup {<<[name |-> n, size |-> s]>> : n \in ScenarioNames, s \in Sizes}

Words == { <<"p","d","f">>, <<"P","d","F">>, <<"x">>, <<>> }

\* the pieces written one after the other with a "." between them
RECURSIVE joinDots(_)
joinDots(segs) ==
    IF Len(segs) = 1 THEN segs[1]
    ELSE segs[1] \o <<".">> \o joinDots(Tail(segs))

\* every non-empty file name made of 1..MaxSegs pieces from Words, at 2 MB
NamedFileLists ==
    {<<[name |-> joinDots(segs), size |-> 2 * 1024 * 1024]>> :
        segs \in {g \in UNION {[1..k -> Words] : k \in 1..MaxSegs} :
                    Len(joinDots(g)) > 0}}

\* ---------------------------------------------------------- specifications
InputStep ==
    \/ DOMContentLoaded
    \/ \E c \in Controls, fl \in ScenarioFileLists : Select(c, fl)
    \/ \E c \in Controls : ChangeEvent(c)

BannerStep ==
    \/ DOMContentLoaded
    \/ \E d \in Delays : Tick(d)
    \/ TimerFire
    \/ \E b \in BannerIds : UserDismiss(b)
    \/ \E b \in BannerIds, close \in BOOLEAN : AddBanner(b, close)

SuffixStep ==
    \/ DOMContentLoaded
    \/ \E c \in Controls, fl \in NamedFileLists : Select(c, fl)
    \/ \E c \in Controls : ChangeEvent(c)

Next ==
    \/ DOMContentLoaded
    \/ \E c \in Controls, fl \in ScenarioFileLists \cup NamedFileLists : Select(c, fl)
    \/ \E c \in Controls : ChangeEvent(c)
    \/ \E d \in Delays : Tick(d)
    \/ TimerFire
    \/ \E b \in BannerIds : UserDismiss(b)
    \/ \E b \in BannerIds, close \in BOOLEAN : AddBanner(b, close)

\* a page with exactly one of the two controls and no banner
InitSuffix ==
    /\ Init
    /\ Cardinality({c \in Controls : present[c]}) = 1
    /\ \A b \in BannerIds : banner[b] = "none"

Spec == Init /\ [][Next]_vars
\* the upload form within the first five seconds after load
SpecInput == Init /\ [][InputStep]_vars
\* the banners, their timers and the clock
SpecBanner == Init /\ [][BannerStep]_vars
\* one control, every file name of a few dotted pieces
SpecSuffix == InitSuffix /\ [][SuffixStep]_vars

\* ------------------------------------------------------------- properties
\* the substring after the last "." of the name, lowercased; the whole
\* lowercased name when it has no "."
SuffixAfterLastDot(name) ==
    LET dots == {i \in 1..Len(name) : name[i] = "."}
    IN IF dots = {} THEN toLowerCase(name)
       ELSE LET last == CHOOSE i \in dots : \A j \in dots : j <= i
            IN toLowerCase(SubSeq(name, last + 1, Len(name)))

AllowedSet(c) == {allowedExtensions(c)[i] : i \in 1..Len(allowedExtensions(c))}

SuffixAllowed(c, fileList) == SuffixAfterLastDot(fileList[1].name) \in AllowedSet(c)

\* validateFileInput has returned for a pick of one file on c
Checked(c) == validated[c] /\ selected[c] # <<>>

IsTypeAlert(a, c) ==
    a.msg = "Invalid file type. Allowed types: " /\ a.list = allowedExtensions(c)
IsSizeAlert(a) == a.msg = "File size exceeds the maximum limit of 16MB."

TypeAlerts(c) == {i \in 1..Len(alerted[c]) : IsTypeAlert(alerted[c][i], c)}
SizeAlerts(c) == {i \in 1..Len(alerted[c]) : IsSizeAlert(alerted[c][i])}

\* C1: once validateFileInput has returned, the control's selection is empty
\* or is the originally selected file, with an allowed suffix and a size of
\* at most 16,777,216 bytes.
C1_EmptyOrValid ==
    \A c \in Controls :
        validated[c] =>
            \/ files[c] = <<>>
            \/ /\ files[c] = selected[c]
               /\ SuffixAllowed(c, files[c])
               /\ files[c][1].size <= 16777216

C1_Witness ==
    /\ validated["answer_sheet"] /\ files["answer_sheet"] # <<>>
    /\ Checked("answer_key") /\ files["answer_key"] = <<>>

\* C2: a file with an allowed suffix and a size of at most 16,777,216 bytes
\* stays selected and raises no alert.
C2_ValidKept ==
    \A c \in Controls :
        (Checked(c) /\ SuffixAllowed(c, selected[c])
                    /\ selected[c][1].size <= 16777216)
            => files[c] = selected[c] /\ alerted[c] = <<>>

C2_Witness ==
    \E c \in Controls :
        /\ Checked(c) /\ selected[c][1].size = 16777216
        /\ files[c] = selected[c] /\ alerted[c] = <<>>

\* C3: a file whose lowercased suffix is not allowed is cleared from the
\* control, and exactly one alert naming the allowed set is raised.
C3_WrongTypeCleared ==
    \A c \in Controls :
        (Checked(c) /\ ~SuffixAllowed(c, selected[c]))
            => files[c] = <<>> /\ Cardinality(TypeAlerts(c)) = 1

C3_Witness ==
    /\ Checked("answer_sheet")
    /\ selected["answer_sheet"][1] =
           [name |-> <<"s","c","a","n",".","d","o","c","x">>, size |-> 2097152]
    /\ files["answer_sheet"] = <<>>
    /\ alerted["answer_sheet"] = <<TypeAlert(allowedExtensions("answer_sheet"))>>

\* C4: a file larger than 16,777,216 bytes is cleared from the control and
\* exactly one size alert is raised, whatever its suffix.
C4_OversizeCleared ==
    \A c \in Controls :
        (Checked(c) /\ selected[c][1].size > 16777216)
            => files[c] = <<>> /\ Cardinality(SizeAlerts(c)) = 1

C4_Witness ==
    /\ Checked("answer_key")
    /\ selected["answer_key"][1] =
           [name |-> <<"k","e","y",".","t","x","t">>, size |-> 20971520]
    /\ files["answer_key"] = <<>>
    /\ alerted["answer_key"] = <<SizeAlert>>

\* C5: a file that is both wrong-typed and oversized raises exactly two
\* alerts, the type alert first and the size alert second, and is cleared.
C5_BothAlertsInOrder ==
    \A c \in Controls :
        (Checked(c) /\ ~SuffixAllowed(c, selected[c])
                    /\ selected[c][1].size > 16777216)
            => /\ Len(alerted[c]) = 2
               /\ IsTypeAlert(alerted[c][1], c)
               /\ IsSizeAlert(alerted[c][2])
               /\ files[c] = <<>>

C5_Witness ==
    \E c \in Controls :
        /\ Checked(c) /\ ~SuffixAllowed(c, selected[c])
        /\ selected[c][1].size > 16777216
        /\ Len(alerted[c]) = 2 /\ files[c] = <<>>

TimersFor(b) == {i \in 1..Len(timers) : timers[i].alert = b}

IsTxtWithinCap(fileList) ==
    /\ fileList # <<>>
    /\ SuffixAfterLastDot(fileList[1].name) = <<"t","x","t">>
    /\ fileList[1].size <= 16777216

\* C6: after document-ready every present control has exactly one change
\* handler with its own allowed set (txt only on answer_key, so a .txt file
\* within the cap is rejected on answer_sheet and accepted on answer_key), an
\* absent control has none and raises no error, and every banner has its timer.
C6_Initialization ==
    ready =>
        /\ ~uncaught
        /\ handlers["answer_sheet"] =
               IF present["answer_sheet"] THEN << <<jpg, jpeg, png, pdf>> >> ELSE <<>>
        /\ handlers["answer_key"] =
               IF present["answer_key"] THEN << <<jpg, jpeg, png, pdf, txt>> >> ELSE <<>>
        /\ \A b \in BannerIds :
               banner[b] = "shown" => Cardinality(TimersFor(b)) = 1
        /\ \A c \in Controls :
               (validated[c] /\ IsTxtWithinCap(selected[c])) =>
                   files[c] = IF c = "answer_key" THEN selected[c] ELSE <<>>

C6_Witness ==
    /\ ready
    /\ ~present["answer_sheet"]
    /\ validated["answer_key"] /\ IsTxtWithinCap(selected["answer_key"])
    /\ files["answer_key"] = selected["answer_key"]
    /\ \E b \in BannerIds : TimersFor(b) # {}

\* C7: each banner found at initialization gets one one-shot timer due 5000 ms
\* later, whose callback activates the dismiss affordance once if there is one
\* and otherwise leaves the banner untouched without an error; a banner that
\* was not on the page at initialization has no timer and is never
\* auto-dismissed.
C7_TimerState ==
    /\ ~uncaught
    /\ \A b \in BannerIds :
           IF b \in alerts
           THEN /\ Cardinality(TimersFor(b)) + fired[b] = 1
                /\ \A i \in TimersFor(b) : timers[i].due = loadedAt + 5000
                /\ fired[b] = 1 =>
                       /\ now >= loadedAt + 5000
                       /\ clicks[b] = IF hasClose[b] THEN 1 ELSE 0
                       /\ ~hasClose[b] => banner[b] = "shown"
                /\ fired[b] = 0 => clicks[b] = 0
           ELSE /\ TimersFor(b) = {}
                /\ fired[b] = 0
                /\ clicks[b] = 0
                /\ dismissedBy[b] # "timer"

C7_AutoClose ==
    /\ []C7_TimerState
    /\ [][(~ready /\ ready') =>
             \A b \in BannerIds :
                 (banner[b] = "shown") <=>
                     (\E i \in 1..Len(timers') : timers'[i].alert = b)]_vars

C7_Witness ==
    /\ timers = <<>>
    /\ \E b \in alerts : fired[b] = 1 /\ ~hasClose[b] /\ banner[b] = "shown"
    /\ \E b \in BannerIds \ alerts : banner[b] = "shown" /\ hasClose[b]
    /\ now >= loadedAt + 5000

\* C8: a banner is dismissed by the user or by its timer, whichever comes
\* first; in either order the banner ends dismissed, the later event leaves it
\* as it is, and no error is raised.
C8_DismissOnce ==
    /\ [](/\ ~uncaught
          /\ \A b \in BannerIds :
                 ((fired[b] > 0 /\ hasClose[b]) \/ dismissedBy[b] # "none")
                     => banner[b] = "dismissed")
    /\ [][\A b \in BannerIds :
              dismissedBy[b] # "none" =>
                  banner'[b] = banner[b] /\ dismissedBy'[b] = dismissedBy[b]]_vars

C8_Witness ==
    \E b \in BannerIds :
        /\ dismissedBy[b] = "user"
        /\ fired[b] = 1 /\ clicks[b] = 1
        /\ banner[b] = "dismissed"

\* C9: a change event on a control with no file selected raises no alert and
\* no error and leaves the selection empty.
C9_NoFileNoEffect ==
    \A c \in Controls :
        (validated[c] /\ selected[c] = <<>>)
            => files[c] = <<>> /\ alerted[c] = <<>> /\ ~uncaught

C9_Witness ==
    \E c \in Controls : validated[c] /\ selected[c] = <<>> /\ files[c] = <<>>

\* C10: a file within the size cap is accepted exactly when the lowercased
\* text after the last "." of its name, or its whole lowercased name when it
\* has no ".", is in the allowed set.
C10_SuffixRule ==
    \A c \in Controls :
        Checked(c) =>
            LET name == selected[c][1].name
                dots == {i \in 1..Len(name) : name[i] = "."}
                wanted == {<<"j","p","g">>, <<"j","p","e","g">>,
                           <<"p","n","g">>, <<"p","d","f">>}
                          \cup (IF c = "answer_key" THEN {<<"t","x","t">>} ELSE {})
            IN /\ (files[c] = selected[c]) <=> (SuffixAfterLastDot(name) \in wanted)
               /\ (files[c] = <<>>) <=> (SuffixAfterLastDot(name) \notin wanted)
               /\ dots = {} => ((files[c] = selected[c]) <=> (toLowerCase(name) \in wanted))

C10_Witness ==
    \E c \in Controls :
        /\ Checked(c)
        /\ selected[c][1].name = <<"P","d","F">>
        /\ files[c] = selected[c]
====
